---- MODULE Spec2Model ----
(***************************************************************************)
(* rf-db-mailer (src/index.js): process-wide caches of mail templates,     *)
(* subjects and translations filled from a database, a mustache based      *)
(* render (getTemplate) and a nodemailer based delivery (send).            *)
(*                                                                         *)
(* A text is a sequence of tokens: literal pieces and {{ }} tags.  A       *)
(* JavaScript value is a record [ty, v, keys]: a string carries its text   *)
(* in v, an object (translation bundle) its own properties in keys.        *)
(***************************************************************************)
EXTENDS Integers, Sequences, FiniteSets, TLC

\* ---------------------------------------------------------------- bounds
MaxReloads == 2     \* reloadTemplates invocations (those made by start included)
MaxRenders == 2     \* getTemplate calls (those made by send included)
MaxSends   == 2     \* send calls
MaxChain   == 4     \* longest chain of templates referencing the next one
MaxSegs    == 3     \* pipe segments after the path of an interpolation

\* ---------------------------------------------------------------- texts
\* f holds the pipe segments that follow the path inside the tag
Lit(s)     == [k |-> "lit",  v |-> s, f |-> <<>>]    \* literal text
TmplRef(n) == [k |-> "tmpl", v |-> n, f |-> <<>>]    \* {{ templates.n }}
LangRef(n) == [k |-> "lang", v |-> n, f |-> <<>>]    \* {{ lang.n }}
DataRef(n) == [k |-> "data", v |-> n, f |-> <<>>]    \* {{ data.n }}

\* {{ path | segment | segment ... }}
Piped(tok, segs) == [tok EXCEPT !.f = segs]

\* a parameter of a filter: a quoted string, an integer or a path
Param(kind, v) == [kind |-> kind, v |-> v]

\* the text between two pipes: ` filter : param : param `
Seg(filter, params) == [filter |-> filter, params |-> params, blank |-> FALSE]

\* nothing between two pipes, or after the last one (the engine trims the tag)
EmptySeg == [filter |-> "", params |-> <<>>, blank |-> FALSE]

\* blanks between two pipes
BlankSeg == [filter |-> "", params |-> <<>>, blank |-> TRUE]

\* where an exception ended a render
ThrowTok == [k |-> "throw", v |-> "TypeError", f |-> <<>>]

\* ---------------------------------------------------------------- values
NoKeys    == [x \in {} |-> <<>>]
Undefined == [ty |-> "undef", v |-> <<>>, keys |-> NoKeys]
Str(t)    == [ty |-> "str",   v |-> t,    keys |-> NoKeys]
Obj(ks)   == [ty |-> "obj",   v |-> <<>>, keys |-> ks]
Func      == [ty |-> "fn",    v |-> <<>>, keys |-> NoKeys]
Zero      == [ty |-> "num",   v |-> <<>>, keys |-> NoKeys]
Num(t)    == [ty |-> "num",   v |-> t,    keys |-> NoKeys]

\* what a statement that throws leaves in place of its value
Thrown == [ty |-> "throw", v |-> <<>>, keys |-> NoKeys]

\* JavaScript truthiness: undefined, 0 and the empty string are falsy
Truthy(x) ==
    CASE x.ty = "undef" -> FALSE
      [] x.ty = "num"   -> FALSE
      [] x.ty = "str"   -> x.v # <<>>
      [] OTHER          -> TRUE

\* a || b
OrElse(a, b) == IF Truthy(a) THEN a ELSE b

\* `let templates = []`: the caches are arrays used as maps, so a key that is no
\* own property is looked up on Array.prototype
ArrayMember(key) ==
    CASE key = "constructor" -> Func
      [] key = "length"      -> Zero
      [] OTHER               -> Undefined

\* cache[key]
Get(cache, key) ==
    IF key \in DOMAIN cache THEN cache[key] ELSE ArrayMember(key)

\* cache[key] = val
Put(cache, key, val) ==
    [n \in DOMAIN cache \cup {key} |-> IF n = key THEN val ELSE cache[n]]

EmptyCache == [n \in {} |-> Undefined]

\* ---------------------------------------------------------------- mustache
\* mustache's HTML escape of an interpolated value: & < > " ' / ` = are
\* replaced by entities; braces, dots and blanks are not, so a tag inside an
\* interpolated value comes out as the same tag
Escape(tok) ==
    IF tok.k = "lit" /\ tok.v = "<b>" THEN Lit("&lt;b&gt;") ELSE tok

EscapeText(t) == [i \in 1..Len(t) |-> Escape(t[i])]

\* the engine's own lookup (line 281) of a dotted name in the view {data, lang,
\* templates}
Lookup(tok, cd) ==
    CASE tok.k = "tmpl" -> Get(cd.templates, tok.v)
      [] tok.k = "lang" ->
            IF cd.lang.ty = "obj" /\ tok.v \in DOMAIN cd.lang.keys
            THEN Str(cd.lang.keys[tok.v]) ELSE Undefined
      [] tok.k = "data" ->
            IF cd.data.ty = "obj" /\ tok.v \in DOMAIN cd.data.keys
            THEN Str(cd.data.keys[tok.v]) ELSE Undefined
      [] OTHER -> Undefined

\* String(value) as the formatters below and the engine print it
AsText(val) ==
    CASE val.ty \in {"str", "num"} -> val.v
      [] val.ty = "undef"          -> <<Lit("undefined")>>
      [] OTHER                     -> <<Lit("[object]")>>

RECURSIVE ArgTexts(_, _)
ArgTexts(params, i) ==
    IF i > Len(params) THEN <<>>
    ELSE (IF i > 1 THEN <<Lit(",")>> ELSE <<>>) \o AsText(params[i])
         \o ArgTexts(params, i + 1)

\* the formatter functions the caller registers (options.mustacheFormatter): each
\* returns its name applied to its arguments, as in
\* up: (...a) => 'up(' + a.map(String).join(',') + ')'
Formatter(name, params) ==
    Str(<<Lit(name), Lit("(")>> \o ArgTexts(params, 1) \o <<Lit(")")>>)

Formatters == {"up", "ex"}

RECURSIVE parseExpression(_, _)

\* lines 240-254
parseParam(param, cd) ==
    CASE param.kind = "str" -> Str(<<Lit(param.v)>>)
      [] param.kind = "int" -> Num(<<Lit(param.v)>>)
      [] OTHER              -> parseExpression(param.v, cd)

\* lines 261-276.  filterExp matches no empty segment: match is null and
\* match[1] throws a TypeError
applyFilter(expr, fltr, cd) ==
    IF fltr = EmptySeg THEN Thrown
    ELSE LET params == <<expr>> \o [i \in 1..Len(fltr.params) |->
                                        parseParam(fltr.params[i], cd)]
         IN  IF fltr.filter \in cd.formatters
             THEN Formatter(fltr.filter, params)
             ELSE expr

\* the segments applied from the last one to the first
RECURSIVE ApplyFromLast(_, _, _, _)
ApplyFromLast(expr, segs, i, cd) ==
    IF i > Len(segs) THEN expr
    ELSE LET inner == ApplyFromLast(expr, segs, i + 1, cd)
         IN  IF inner = Thrown THEN Thrown ELSE applyFilter(inner, segs[i], cd)

\* the loop of lines 292-294, which an exception ends
RECURSIVE ApplyFrom(_, _, _, _)
ApplyFrom(expr, segs, i, cd) ==
    IF i > Len(segs) \/ expr = Thrown THEN expr
    ELSE ApplyFrom(applyFilter(expr, segs[i], cd), segs, i + 1, cd)

\* Context.prototype.lookup as mustacheWax replaces it, lines 286-296
parseExpression(tok, cd) ==
    ApplyFrom(Lookup(tok, cd), tok.f, 1, cd)

HasThrow(text) == \E i \in 1..Len(text) : text[i].k = "throw"

\* one {{ name }} tag: the escaped string value, nothing for a missing value
RenderToken(tok, cd) ==
    IF tok.k \in {"lit", "throw"} THEN <<tok>>
    ELSE LET val == parseExpression(tok, cd)
         IN  CASE val = Thrown              -> <<ThrowTok>>
               [] val.ty \in {"str", "num"} -> EscapeText(val.v)
               [] OTHER                     -> <<>>

RECURSIVE RenderFrom(_, _, _)
RenderFrom(text, i, cd) ==
    IF i > Len(text) THEN <<>>
    ELSE RenderToken(text[i], cd) \o RenderFrom(text, i + 1, cd)

\* mustache.render(template, view) for a string template: one pass over the
\* template; the output is a string, whose tags a further pass parses again
Render(text, cd) == RenderFrom(text, 1, cd)

\* htmlToText.fromString(html, { wordwrap: 130 }): tags are dropped, entities
\* decoded, other text kept (texts here are far shorter than the wrap width)
RECURSIVE HtmlToTextFrom(_, _)
HtmlToTextFrom(html, i) ==
    IF i > Len(html) THEN <<>>
    ELSE (CASE html[i] = Lit("<b>")       -> <<>>
            [] html[i] = Lit("&lt;b&gt;") -> <<Lit("<b>")>>
            [] OTHER                      -> <<html[i]>>)
         \o HtmlToTextFrom(html, i + 1)

HtmlToText(html) == HtmlToTextFrom(html, 1)

\* ---------------------------------------------------------------- getTemplate
\* templateOps: [given, name, language, data]; "" stands for an absent string
NoTemplateOps == [given |-> FALSE, name |-> "", language |-> "", data |-> Undefined]
TemplateOps(n, l, d) == [given |-> TRUE, name |-> n, language |-> l, data |-> d]

NoMessageContent == [subject |-> Undefined, html |-> Undefined, text |-> Undefined]

\* one step of a getTemplate call, with the value it read and the value it made
Step(name, inp, out) == [step |-> name, inp |-> inp, out |-> out]

\* callback(...), lines 118 and 176
CallbackStep == Step("callback", Undefined, Undefined)

\* the steps that run: an exception ends the call at the step that throws
UpToThrow(all) ==
    LET bad == {i \in 1..Len(all) : all[i].out = Thrown}
    IN  IF bad = {} THEN all
        ELSE SubSeq(all, 1, CHOOSE i \in bad : \A j \in bad : i <= j)

\* the outcome of a getTemplate call that did not render
Unrendered(out, cbCalls, cbErr) ==
    [out |-> out, cbCalls |-> cbCalls, cbErr |-> cbErr, waxed |-> FALSE,
     langObj |-> Undefined, message |-> NoMessageContent,
     steps |-> IF cbCalls = 1 THEN <<CallbackStep>> ELSE <<>>]

\* lines 121-136: the translation layer of the render
SelectLang(templateOps, tr, o) ==
    LET lang == IF templateOps.language # "" THEN templateOps.language
                ELSE IF o.defaultLanguage # "" THEN o.defaultLanguage
                ELSE "de"
        translation == Get(tr, lang)
    IN  IF Truthy(translation) THEN translation
        ELSE IF o.defaultLanguage # "" THEN Get(tr, o.defaultLanguage)
        ELSE Undefined

\* a single pass, as in the module's earlier version
RenderOnce(text, cd) == Render(text, cd)

\* one mustache.render(template, view) call: a TypeError for a template that is
\* no string
RenderPass(val, cd) ==
    IF val.ty # "str" THEN Thrown
    ELSE LET out == Render(val.v, cd)
         IN  IF HasThrow(out) THEN Thrown ELSE Str(out)

\* mustache.render twice (lines 157-160 and 165-168)
RenderTwice(text, cd) == Render(Render(text, cd), cd)

\* lines 109-177.  out: "nocallback" (logged, returned), "error" (callback
\* called with an error), "ok" (callback called with the message), "throw"
\* (mustache.render threw a TypeError on a template that is no string)
getTemplate(templateOps, hasCallback, tr, tm, sj, o) ==
    IF ~hasCallback THEN Unrendered("nocallback", 0, FALSE)
    ELSE IF ~templateOps.given THEN Unrendered("error", 1, TRUE)
    ELSE
    LET langObj     == SelectLang(templateOps, tr, o)
        template    == Get(tm, templateOps.name)
        subjectTmpl == Get(sj, templateOps.name)
        \* the view of lines 145-149; Mustache.Formatters (line 153) goes with it
        compileData == [data |-> templateOps.data, lang |-> langObj, templates |-> tm,
                        formatters |-> o.mustacheFormatter]
        subject     == IF Truthy(subjectTmpl)
                       THEN Str(RenderTwice(subjectTmpl.v, compileData))
                       ELSE Undefined
        html        == IF Truthy(template)
                       THEN Str(RenderTwice(template.v, compileData))
                       ELSE subject
        text        == IF Truthy(html) THEN Str(HtmlToText(html.v)) ELSE Undefined
        subject1    == RenderPass(subjectTmpl, compileData)
        html1       == RenderPass(template, compileData)
        statements  ==
            (IF Truthy(subjectTmpl)
             THEN << Step("subject pass 1", subjectTmpl, subject1),
                     Step("subject pass 2", subject1, RenderPass(subject1, compileData)) >>
             ELSE <<>>)
            \o (IF Truthy(template)
                THEN << Step("body pass 1", template, html1),
                        Step("body pass 2", html1, RenderPass(html1, compileData)) >>
                ELSE <<>>)
            \o (IF Truthy(html) THEN <<Step("plaintext", html, text)>> ELSE <<>>)
            \o <<CallbackStep>>
        steps       == UpToThrow(statements)
        throws      == steps # statements
    IN  IF throws
        THEN [out |-> "throw", cbCalls |-> 0, cbErr |-> FALSE, waxed |-> TRUE,
              langObj |-> langObj, message |-> NoMessageContent, steps |-> steps]
        ELSE [out |-> "ok", cbCalls |-> 1, cbErr |-> FALSE, waxed |-> TRUE,
              langObj |-> langObj,
              message |-> [subject |-> subject, html |-> html, text |-> text],
              steps |-> steps]

\* ---------------------------------------------------------------- store contents
\* what the database may answer to a find(): lists of documents
NameSeq == <<"T1", "T2", "T3", "T4", "T5", "T6">>

PlainText == <<Lit("<b>"), Lit("txt")>>

\* T1 -> T2 -> ... -> Tn: every body and subject but the last is a reference to
\* the next template
ChainDocs(n) ==
    [k \in 1..n |->
        LET t == IF k < n THEN <<TmplRef(NameSeq[k + 1])>> ELSE PlainText
        IN  [name |-> NameSeq[k], text |-> Str(t), subject |-> Str(t)]]

OtherDocs ==
    << [name |-> "W",
        text |-> Str(<<Lit("Hi"), DataRef("x"), LangRef("greet"), Lit("<b>")>>),
        subject |-> Str(<<LangRef("greet")>>)],
       [name |-> "S", text |-> Undefined, subject |-> Str(<<Lit("News")>>)] >>

\* a chain and the other templates
Docs(n) == ChainDocs(n) \o OtherDocs

TemplateLists == {<<>>} \cup {Docs(n) : n \in (MaxChain - 1)..MaxChain}

Keys(t) == [x \in {"greet"} |-> t]

EnglishList == << [lang |-> "en", keys |-> Obj(Keys(<<Lit("Hello")>>))] >>

TranslationLists ==
    { <<>>,
      EnglishList,
      << [lang |-> "de", keys |-> Obj(Keys(<<Lit("Hallo")>>))],
         [lang |-> "en", keys |-> Obj(Keys(<<TmplRef("T2")>>))] >> }

\* the segments the stored templates use: a registered filter with a path
\* parameter, one with a string and an integer parameter, a filter that is not
\* registered, and the two empty segments
Segments ==
    { Seg("up", <<Param("path", DataRef("x"))>>),
      Seg("ex", <<Param("str", "!"), Param("int", "7")>>),
      Seg("none", <<>>),
      BlankSeg,
      EmptySeg }

Chains == UNION {[1..m -> Segments] : m \in 0..MaxSegs}

\* one template whose body is the interpolation {{ data.x | chain }}
FilterDocs(chain) ==
    << [name |-> "F", text |-> Str(<<Piped(DataRef("x"), chain)>>),
        subject |-> Str(<<Lit("News")>>)] >>

DocNames(docs)  == {docs[i].name : i \in 1..Len(docs)}
ListLangs(list) == {list[i].lang : i \in 1..Len(list)}


\* ---------------------------------------------------------------- callers' inputs
Data == Obj([x \in {"x"} |-> <<Lit("Bob")>>])

Requests ==
    { NoTemplateOps,
      TemplateOps("T1", "", Undefined),
      TemplateOps("T2", "", Undefined),
      TemplateOps("W", "en", Data),
      TemplateOps("W", "fr", Data),
      TemplateOps("W", "constructor", Data),
      TemplateOps("nope", "", Undefined),
      TemplateOps("constructor", "", Undefined) }

SendRequests ==
    { NoTemplateOps, TemplateOps("T1", "", Undefined), TemplateOps("W", "en", Data),
      TemplateOps("constructor", "", Undefined) }

\* options.transporter and options.defaultLanguage given to start ("": absent)
StartOptions ==
    { [transporter |-> t, defaultLanguage |-> l, mustacheFormatter |-> {}] :
        t \in {"", "smtpA"}, l \in {"", "en"} }

\* the callers that render while reloads are under way ask for the template
\* that ends the shorter chain and for one with a translated text
InterleavedRequests ==
    { TemplateOps(NameSeq[MaxChain - 1], "", Undefined), TemplateOps("W", "en", Data) }

\* the callers that render interpolations with filters: with and without data
FilterRequests == { TemplateOps("F", "", Data), TemplateOps("F", "", Undefined) }

\* options with and without registered formatters
FilterStartOptions ==
    { [transporter |-> "smtpA", defaultLanguage |-> "en", mustacheFormatter |-> r] :
        r \in {{}, Formatters} }

\* the options of the callers of send: no transporter, or one of two
SendStartOptions ==
    { [transporter |-> t, defaultLanguage |-> "en", mustacheFormatter |-> {}] :
        t \in {"", "smtpA", "smtpB"} }

Databases == {"dbA"}

\* the database handles given to start where the store is looked at
StoreHandles == {"dbA", "dbB"}

\* the message objects the callers hold; send works on the object itself
Message(to, subject, transporter) ==
    [to |-> to, subject |-> subject, html |-> Undefined, text |-> Undefined,
     transporter |-> transporter]

MsgIds == {"m1", "m2", "m3"}

InitialMessages ==
    [m \in MsgIds |->
        CASE m = "m1" -> Message("", Undefined, "")
          [] m = "m2" -> Message("a@b", Undefined, "")
          [] OTHER    -> Message("a@b", Str(<<Lit("Re")>>), "smtpM")]

\* ---------------------------------------------------------------- state
VARIABLES
    opts,          \* module variable opts ({} until a start succeeds)
    db,            \* module variable db
    translations,  \* module variable translations: language -> bundle
    templates,     \* module variable templates: name -> body
    subjects,      \* module variable subjects: name -> subject
    waxDepth,      \* number of mustacheWax calls made (one per render)
    messages,      \* the callers' message objects
    pending,       \* database queries whose exec callback has not run yet
    inFlight,      \* sends whose sendMail callback has not run yet
    alive,         \* FALSE once an uncaught exception has ended the process
    nReloads,      \* reloadTemplates invocations so far
    uncaught,      \* an exception was thrown where no caller can catch it
    lastRender,    \* the most recent getTemplate call and its outcome
    reloadSince,   \* reloadTemplates was invoked since the last getTemplate call
    fetchSince,    \* a fetch result was applied since the last getTemplate call
    applied,       \* per query kind, the result of the latest-invoked reload once
                   \* it has been applied
    sendLog        \* one record per send call

vars == <<opts, db, translations, templates, subjects, waxDepth, messages, pending,
          inFlight, alive, uncaught, nReloads, lastRender, reloadSince, fetchSince,
          applied, sendLog>>

caches == <<translations, templates, subjects>>

\* opts = {}: opts.mustacheFormatter || {} is the empty registry
NoOpts == [defaultLanguage |-> "", transporter |-> "", dbName |-> "",
           mustacheFormatter |-> {}]

\* no result of the latest-invoked reload applied yet
NoneApplied ==
    [translations |-> [done |-> FALSE, list |-> <<>>],
     templates |-> [done |-> FALSE, list |-> <<>>]]

\* both results of the latest-invoked reload applied
BothApplied(list, docs) ==
    [translations |-> [done |-> TRUE, list |-> list],
     templates |-> [done |-> TRUE, list |-> docs]]

NoRender ==
    [n |-> 0, req |-> NoTemplateOps, hasCb |-> FALSE,
     res |-> Unrendered("nocallback", 0, FALSE), repeated |-> FALSE]

Init ==
    /\ opts = NoOpts
    /\ db = "none"
    /\ translations = EmptyCache
    /\ templates = EmptyCache
    /\ subjects = EmptyCache
    /\ waxDepth = 0
    /\ messages = InitialMessages
    /\ pending = {}
    /\ inFlight = {}
    /\ alive = TRUE
    /\ nReloads = 0
    /\ uncaught = FALSE
    /\ lastRender = NoRender
    /\ reloadSince = FALSE
    /\ fetchSince = FALSE
    /\ applied = NoneApplied
    /\ sendLog = <<>>

\* ---------------------------------------------------------------- reload
\* db[opts.dbName] is an object with the two collections
HasStore(d, o) == d # "none" /\ o.dbName = "global"

Fetches(rid) == {[rid |-> rid, kind |-> "translations"], [rid |-> rid, kind |-> "templates"]}

\* lines 67-71 with the synchronous part of getTranslations and getTemplates:
\* both queries are issued, or db[opts.dbName].translations throws a TypeError
\* and no query is issued
reloadTemplates(d, o) ==
    pending' = IF HasStore(d, o) THEN pending \cup Fetches(nReloads + 1) ELSE pending

ReloadTemplates ==
    /\ alive
    /\ nReloads < MaxReloads
    /\ reloadTemplates(db, opts)
    /\ nReloads' = nReloads + 1
    /\ reloadSince' = TRUE
    /\ applied' = NoneApplied
    /\ UNCHANGED <<opts, db, caches, waxDepth, messages, inFlight, alive, uncaught,
                   lastRender, fetchSince, sendLog>>

\* the opts object of lines 54-60
StartOpts(options) ==
    [defaultLanguage |-> IF options.defaultLanguage # "" THEN options.defaultLanguage
                         ELSE "de",
     transporter |-> options.transporter,
     dbName |-> "global",
     mustacheFormatter |-> options.mustacheFormatter]

\* lines 46-65
Start(options, database) ==
    /\ alive
    /\ db' = database
    /\ IF options.transporter = ""
       THEN UNCHANGED <<opts, pending, nReloads, reloadSince, applied>>
       ELSE /\ nReloads < MaxReloads
            /\ opts' = StartOpts(options)
            /\ reloadTemplates(database, StartOpts(options))
            /\ nReloads' = nReloads + 1
            /\ reloadSince' = TRUE
            /\ applied' = NoneApplied
    /\ UNCHANGED <<caches, waxDepth, messages, inFlight, alive, uncaught, lastRender,
                   fetchSince, sendLog>>

\* translationsList.forEach(...), lines 83-85
RECURSIVE StoreTranslations(_, _, _)
StoreTranslations(tr, list, i) ==
    IF i > Len(list) THEN tr
    ELSE StoreTranslations(Put(tr, list[i].lang, list[i].keys), list, i + 1)

\* docs.forEach(...), lines 99-102, for templates and for subjects
RECURSIVE StoreTexts(_, _, _)
StoreTexts(tm, docs, i) ==
    IF i > Len(docs) THEN tm
    ELSE StoreTexts(Put(tm, docs[i].name, docs[i].text), docs, i + 1)

RECURSIVE StoreSubjects(_, _, _)
StoreSubjects(sj, docs, i) ==
    IF i > Len(docs) THEN sj
    ELSE StoreSubjects(Put(sj, docs[i].name, docs[i].subject), docs, i + 1)

\* callback(err) of lines 80 and 96: reloadTemplates passed no callback, so the
\* call throws a TypeError inside the driver's callback; no caller can catch it,
\* and the process ends unless its host handles uncaught exceptions
FetchFailed ==
    /\ uncaught' = TRUE
    /\ \E survives \in BOOLEAN : alive' = survives
    /\ UNCHANGED <<caches, fetchSince, applied>>

\* the result is noted when the query is one of the latest-invoked reload
Note(f, list) ==
    IF f.rid = nReloads
    THEN [applied EXCEPT ![f.kind] = [done |-> TRUE, list |-> list]]
    ELSE applied

\* the exec callback of getTranslations, lines 77-87
TranslationsFetched(f, err, list) ==
    /\ alive
    /\ f \in pending /\ f.kind = "translations"
    /\ pending' = pending \ {f}
    /\ IF err
       THEN FetchFailed
       ELSE /\ translations' = StoreTranslations(translations, list, 1)
            /\ fetchSince' = TRUE
            /\ applied' = Note(f, list)
            /\ UNCHANGED <<templates, subjects, alive, uncaught>>
    /\ UNCHANGED <<opts, db, waxDepth, messages, inFlight, nReloads, lastRender,
                   reloadSince, sendLog>>

\* an exec callback that stores the bodies and leaves the subjects for later
TemplatesFetchedBodiesOnly(f, err, docs) ==
    /\ alive
    /\ f \in pending /\ f.kind = "templates"
    /\ pending' = pending \ {f}
    /\ IF err
       THEN FetchFailed
       ELSE /\ templates' = StoreTexts(templates, docs, 1)
            /\ fetchSince' = TRUE
            /\ applied' = Note(f, docs)
            /\ UNCHANGED <<translations, subjects, alive, uncaught>>
    /\ UNCHANGED <<opts, db, waxDepth, messages, inFlight, nReloads, lastRender,
                   reloadSince, sendLog>>

\* the exec callback of getTemplates, lines 93-104
TemplatesFetched(f, err, docs) ==
    /\ alive
    /\ f \in pending /\ f.kind = "templates"
    /\ pending' = pending \ {f}
    /\ IF err
       THEN FetchFailed
       ELSE /\ templates' = StoreTexts(templates, docs, 1)
            /\ subjects' = StoreSubjects(subjects, docs, 1)
            /\ fetchSince' = TRUE
            /\ applied' = Note(f, docs)
            /\ UNCHANGED <<translations, alive, uncaught>>
    /\ UNCHANGED <<opts, db, waxDepth, messages, inFlight, nReloads, lastRender,
                   reloadSince, sendLog>>

\* ---------------------------------------------------------------- render calls
RenderRecord(templateOps, hasCallback, res) ==
    [n |-> lastRender.n + 1, req |-> templateOps, hasCb |-> hasCallback, res |-> res,
     repeated |-> /\ lastRender.n > 0
                  /\ lastRender.req = templateOps /\ lastRender.hasCb = hasCallback
                  /\ ~reloadSince /\ ~fetchSince]

\* a render that keeps its output in the template cache
RenderedAndStored(templateOps, hasCallback, res) ==
    /\ lastRender.n < MaxRenders
    /\ waxDepth' = IF res.waxed THEN waxDepth + 1 ELSE waxDepth
    /\ lastRender' = RenderRecord(templateOps, hasCallback, res)
    /\ reloadSince' = FALSE
    /\ fetchSince' = FALSE
    /\ templates' = IF res.out = "ok" /\ templateOps.name \in DOMAIN templates
                    THEN Put(templates, templateOps.name, res.message.html)
                    ELSE templates
    /\ UNCHANGED <<opts, db, translations, subjects>>

\* what one getTemplate call does to the module: the render reads the caches and
\* opts, and mustacheWax wraps the engine's lookup once more (line 152)
Rendered(templateOps, hasCallback, res) ==
    /\ lastRender.n < MaxRenders
    /\ waxDepth' = IF res.waxed THEN waxDepth + 1 ELSE waxDepth
    /\ lastRender' = RenderRecord(templateOps, hasCallback, res)
    /\ reloadSince' = FALSE
    /\ fetchSince' = FALSE
    /\ UNCHANGED <<opts, db, caches>>

\* a caller's getTemplate(templateOps, callback)
GetTemplate(templateOps, hasCallback) ==
    LET res == getTemplate(templateOps, hasCallback, translations, templates, subjects, opts)
    IN  /\ alive
        /\ Rendered(templateOps, hasCallback, res)
        /\ UNCHANGED <<messages, pending, inFlight, alive, uncaught, nReloads, applied,
                       sendLog>>

\* ---------------------------------------------------------------- send
NoMessage == "none"

HasTo(m) == m # NoMessage /\ messages[m].to # ""

\* the checks without the one of message.to
SendErrMsgNoTo(template, m, hasCallback) ==
    IF ~hasCallback THEN "no callback defined"
    ELSE IF m = NoMessage THEN "no template and no options defined for nodemailer"
    ELSE IF ~template.given THEN "no template defined"
    ELSE ""

\* lines 183-186: the last check that fails names the error
SendErrMsg(template, m, hasCallback) ==
    IF ~hasCallback THEN "no callback defined"
    ELSE IF ~HasTo(m) THEN "no template and no options defined for nodemailer"
    ELSE IF ~template.given THEN "no template defined"
    ELSE ""

\* the instance's transporter first
TransporterOptsDefaultFirst(msg, o) ==
    IF o.transporter # "" THEN o.transporter ELSE msg.transporter

\* message.transporter || opts.transporter, line 192.  A transporter is a
\* connection URL (a string), which JSON.parse(JSON.stringify(..)) returns as an
\* equal string; "" stands for undefined
TransporterOpts(msg, o) == IF msg.transporter # "" THEN msg.transporter ELSE o.transporter

\* no message was handed to sendMail
NoForward == Message("", Undefined, "")

\* the message completed by lines 202-204, its transporter left in place
ForwardedWithTransporter(msg, mc) ==
    [to |-> msg.to,
     subject |-> OrElse(msg.subject, mc.subject),
     html |-> OrElse(msg.html, mc.html),
     text |-> OrElse(msg.text, mc.text),
     transporter |-> msg.transporter]

\* the caller's message object as sendMail receives it: the transporter deleted
\* (line 193), subject, html and text filled in where absent (lines 202-204)
Forwarded(msg, mc) ==
    [to |-> msg.to,
     subject |-> OrElse(msg.subject, mc.subject),
     html |-> OrElse(msg.html, mc.html),
     text |-> OrElse(msg.text, mc.text),
     transporter |-> ""]

SendRecord(template, m, hasCallback, out, thrown, renders, cfg, fwd) ==
    [msg |-> m, forwarded |-> fwd,
     hasTemplate |-> template.given, hasMessage |-> m # NoMessage, hasTo |-> HasTo(m),
     hasCb |-> hasCallback, out |-> out, thrown |-> thrown, renders |-> renders,
     transportCalls |-> IF out = "sent" THEN 1 ELSE 0, transporterOpts |-> cfg,
     cbCalls |-> IF out = "invalid" /\ hasCallback THEN 1 ELSE 0,
     cbErr |-> out = "invalid" /\ hasCallback]

\* lines 187-190: callback(errMsg), which throws when there is no callback
SendInvalid(template, m, hasCallback) ==
    /\ sendLog' = Append(sendLog,
          SendRecord(template, m, hasCallback, "invalid",
                     IF hasCallback THEN "none" ELSE "TypeError", 0, "",
                     NoForward))
    /\ UNCHANGED <<opts, db, caches, waxDepth, messages, inFlight, lastRender,
                   reloadSince, fetchSince>>

\* line 192 with neither transporter: JSON.stringify(undefined) is undefined and
\* JSON.parse(undefined) throws a SyntaxError, before lines 193-194 are reached
SendNoTransporter(template, m) ==
    /\ sendLog' = Append(sendLog, SendRecord(template, m, TRUE, "throw", "SyntaxError", 0, "",
                                          NoForward))
    /\ UNCHANGED <<opts, db, caches, waxDepth, messages, inFlight, lastRender,
                   reloadSince, fetchSince>>

\* lines 193-220: the transporter is deleted from the caller's object, the
\* template rendered, the message completed and handed to sendMail
SendRender(template, m) ==
    LET cfg  == TransporterOpts(messages[m], opts)
        res  == getTemplate(template, TRUE, translations, templates, subjects, opts)
        sent == Forwarded(messages[m], res.message)
    IN  /\ Rendered(template, TRUE, res)
        /\ IF res.out = "throw"
           THEN /\ messages' = [messages EXCEPT ![m].transporter = ""]
                /\ sendLog' = Append(sendLog,
                      SendRecord(template, m, TRUE, "throw", "TypeError", 1, cfg,
                                 NoForward))
                /\ UNCHANGED inFlight
           ELSE /\ messages' = [messages EXCEPT ![m] = sent]
                /\ sendLog' = Append(sendLog,
                      SendRecord(template, m, TRUE, "sent", "none", 1, cfg, sent))
                /\ inFlight' = inFlight \cup {Len(sendLog) + 1}

\* lines 180-223
Send(template, m, hasCallback) ==
    /\ alive
    /\ Len(sendLog) < MaxSends
    /\ IF SendErrMsg(template, m, hasCallback) # ""
       THEN SendInvalid(template, m, hasCallback)
       ELSE IF TransporterOpts(messages[m], opts) = ""
       THEN SendNoTransporter(template, m)
       ELSE SendRender(template, m)
    /\ UNCHANGED <<pending, alive, uncaught, nReloads, applied>>

\* the sendMail callback, lines 211-219: callback(err, info)
SendMailDone(i, err) ==
    /\ alive
    /\ i \in inFlight
    /\ inFlight' = inFlight \ {i}
    /\ sendLog' = [sendLog EXCEPT ![i].cbCalls = @ + 1, ![i].cbErr = err]
    /\ UNCHANGED <<opts, db, caches, waxDepth, messages, pending, alive, uncaught,
                   nReloads, lastRender, reloadSince, fetchSince, applied>>

\* ---------------------------------------------------------------- specification
\* the store: start, reloads and the queries' callbacks, which may report an error
NextReload ==
    \/ \E options \in StartOptions, database \in StoreHandles : Start(options, database)
    \/ ReloadTemplates
    \/ \E f \in pending, err \in BOOLEAN, list \in TranslationLists :
          TranslationsFetched(f, err, list)
    \/ \E f \in pending, err \in BOOLEAN, docs \in TemplateLists :
          TemplatesFetched(f, err, docs)

SpecReload == Init /\ [][NextReload]_vars

\* the render: getTemplate calls between starts, reloads and successful queries
NextRender ==
    \/ \E options \in StartOptions, database \in Databases : Start(options, database)
    \/ ReloadTemplates
    \/ \E f \in pending, list \in TranslationLists \ {<<>>} :
          TranslationsFetched(f, FALSE, list)
    \/ \E f \in pending : TemplatesFetched(f, FALSE, Docs(MaxChain))
    \/ \E templateOps \in Requests : GetTemplate(templateOps, TRUE)
    \/ GetTemplate(NoTemplateOps, FALSE)

SpecRender == Init /\ [][NextRender]_vars

\* renders between the answers of overlapping reloads' queries
NextInterleaved ==
    \/ \E options \in StartOptions, database \in Databases : Start(options, database)
    \/ ReloadTemplates
    \/ \E f \in pending, list \in TranslationLists \ {<<>>} :
          TranslationsFetched(f, FALSE, list)
    \/ \E f \in pending, docs \in TemplateLists \ {<<>>} :
          TemplatesFetched(f, FALSE, docs)
    \/ \E templateOps \in InterleavedRequests : GetTemplate(templateOps, TRUE)

SpecInterleaved == Init /\ [][NextInterleaved]_vars

\* the module after a successful start whose two queries have been answered
LoadedWith(options, list, docs) ==
    /\ opts = StartOpts(options)
    /\ db = "dbA"
    /\ translations = StoreTranslations(EmptyCache, list, 1)
    /\ templates = StoreTexts(EmptyCache, docs, 1)
    /\ subjects = StoreSubjects(EmptyCache, docs, 1)
    /\ waxDepth = 0
    /\ messages = InitialMessages
    /\ pending = {}
    /\ inFlight = {}
    /\ alive = TRUE
    /\ uncaught = FALSE
    /\ nReloads = 1
    /\ lastRender = NoRender
    /\ reloadSince = TRUE
    /\ fetchSince = TRUE
    /\ applied = BothApplied(list, docs)
    /\ sendLog = <<>>

\* the filters: renders of the stored interpolations, after a start with or
\* without formatters
NextFilter ==
    \E templateOps \in FilterRequests : GetTemplate(templateOps, TRUE)

InitFilter ==
    \E options \in FilterStartOptions, chain \in Chains :
        LoadedWith(options, EnglishList, FilterDocs(chain))

SpecFilter == InitFilter /\ [][NextFilter]_vars

Loaded ==
    /\ opts = StartOpts([transporter |-> "smtpA", defaultLanguage |-> "en",
                         mustacheFormatter |-> {}])
    /\ db = "dbA"
    /\ translations = StoreTranslations(EmptyCache, EnglishList, 1)
    /\ templates = StoreTexts(EmptyCache, Docs(MaxChain), 1)
    /\ subjects = StoreSubjects(EmptyCache, Docs(MaxChain), 1)
    /\ waxDepth = 0
    /\ messages = InitialMessages
    /\ pending = {}
    /\ inFlight = {}
    /\ alive = TRUE
    /\ uncaught = FALSE
    /\ nReloads = 1
    /\ lastRender = NoRender
    /\ reloadSince = TRUE
    /\ fetchSince = TRUE
    /\ applied = BothApplied(EnglishList, Docs(MaxChain))
    /\ sendLog = <<>>

\* the delivery: send and the transport's callback, before and after a start
NextSend ==
    \/ \E options \in SendStartOptions, database \in Databases : Start(options, database)
    \/ \E template \in SendRequests, m \in MsgIds \cup {NoMessage}, hasCallback \in BOOLEAN :
          Send(template, m, hasCallback)
    \/ \E i \in inFlight, err \in BOOLEAN : SendMailDone(i, err)

SpecSend == (Init \/ Loaded) /\ [][NextSend]_vars

\* everything together
Next == NextReload \/ NextRender \/ NextInterleaved \/ NextFilter \/ NextSend

Spec == Init /\ [][Next]_vars

\* ---------------------------------------------------------------- claims
\* the step is a getTemplate call with a callback and a descriptor; lastRender'
\* holds its arguments and outcome, the unprimed caches are those it read
RenderStep ==
    /\ lastRender'.n = lastRender.n + 1
    /\ lastRender'.hasCb
    /\ lastRender'.req.given

\* the step is a send call; the last record of sendLog' holds its outcome
SendStep == Len(sendLog') = Len(sendLog) + 1

\* C1: after a reload whose fetches succeed, the template/subject cache and the
\* translation cache hold exactly the entries the fetch returned; an entry cached
\* before and absent from the fetched list is gone.
C1_ReloadReplacesCaches ==
    [][/\ \A f \in pending, docs \in TemplateLists :
             TemplatesFetched(f, FALSE, docs)
             => DOMAIN templates' = DocNames(docs) /\ DOMAIN subjects' = DocNames(docs)
       /\ \A f \in pending, list \in TranslationLists :
             TranslationsFetched(f, FALSE, list) => DOMAIN translations' = ListLangs(list)
      ]_vars

\* C2: a failed translations or templates fetch of a reload is logged and nothing
\* is thrown: no exec callback ever throws.
C2_FetchFailureNotThrown == ~uncaught

\* C3: a failed fetch leaves the translation cache and the template/subject cache
\* as they were and does not keep the other fetch of the reload from being
\* applied: the process goes on, so the pending query's callback can still run.
C3_FailedFetchHarmless ==
    [][\A f \in pending :
          (TranslationsFetched(f, TRUE, <<>>) \/ TemplatesFetched(f, TRUE, <<>>))
          => UNCHANGED caches /\ alive'
      ]_vars

\* C4: for a template name that is not in the fetched template set, getTemplate
\* calls back with no error and a message whose html is the rendered subject, or
\* empty when there is no subject either; it never throws.
C4_UnknownNameRendersSubject ==
    [][(RenderStep /\ lastRender'.req.name \notin DOMAIN templates)
       => LET res == lastRender'.res
          IN  /\ res.out = "ok"
              /\ IF res.message.subject.ty = "str"
                 THEN res.message.html = res.message.subject
                 ELSE ~Truthy(res.message.html)
      ]_vars

\* the translation layer C5 states: the requested language's bundle if cached,
\* else the configured default language's bundle if cached, else none
C5_Layer(req, tr, o) ==
    IF req.language # "" /\ req.language \in DOMAIN tr THEN tr[req.language]
    ELSE IF o.defaultLanguage # "" /\ o.defaultLanguage \in DOMAIN tr
         THEN tr[o.defaultLanguage]
    ELSE Undefined

\* C5: getTemplate takes the bundle of the requested language if one is cached,
\* otherwise the bundle of the configured default language, otherwise no
\* translation layer, and in all three cases completes with a message and no error
\* (the TypeError of C4, which the template's name decides, set aside).
C5_LanguageFallback ==
    [][RenderStep
       => /\ lastRender'.res.langObj = C5_Layer(lastRender'.req, translations, opts)
          /\ lastRender'.res.out \in {"ok", "throw"}
          /\ lastRender'.res.out = "throw" => lastRender'.req.name = "constructor"
      ]_vars

\* a body that consists of one reference to another template, and its target
IsRef(val)  == val.ty = "str" /\ Len(val.v) = 1 /\ val.v[1].k = "tmpl"
Target(val) == val.v[1].v

\* what C6 states of a text that starts a chain of references: the text two
\* references away, escaped as an interpolated value is; a reference in it
\* (the third level) stays as the literal tag
C6_TwoLevels(start, tm) ==
    LET first  == Get(tm, Target(start))
        second == Get(tm, Target(first))
    IN  IF ~IsRef(first) THEN Str(EscapeText(first.v))
        ELSE IF IsRef(second) THEN Str(<<TmplRef(Target(second))>>)
        ELSE Str(EscapeText(second.v))

\* C6: for a chain of templates each consisting of a reference to the next one,
\* getTemplate resolves exactly two levels of reference in the body and in the
\* subject: text at most two references away is expanded, a reference at the
\* third level stays in the output as literal {{ }} text.
C6_TwoLevelsResolve ==
    [][RenderStep
       => LET body == Get(templates, lastRender'.req.name)
              subj == Get(subjects, lastRender'.req.name)
              msg  == lastRender'.res.message
          IN  /\ IsRef(body) => msg.html = C6_TwoLevels(body, templates)
              /\ IsRef(subj) => msg.subject = C6_TwoLevels(subj, templates)
      ]_vars

\* a render of T1 in a chain T1 -> T2 -> T3 -> T4 left the reference to T4
C6_Witness ==
    /\ lastRender.n > 0
    /\ lastRender.req.name = "T1"
    /\ lastRender.res.out = "ok"
    /\ lastRender.res.message.html = Str(<<TmplRef("T4")>>)

\* C7 as stated: two getTemplate calls with the same {name, language, data} and
\* no reloadTemplates call between them return identical messages, also when a
\* reload invoked before the first call is still in flight.
C7_SameInputSameMessage ==
    [][(RenderStep /\ lastRender.n > 0 /\ lastRender.hasCb
           /\ lastRender.req = lastRender'.req /\ ~reloadSince)
       => /\ lastRender'.res.out = lastRender.res.out
          /\ lastRender'.res.message = lastRender.res.message
      ]_vars

\* C7 amended: two getTemplate calls with the same {name, language, data}, with
\* no reloadTemplates call made and no fetch result applied between them, return
\* identical messages.
C7_SameInputSameCaches ==
    [][(RenderStep /\ lastRender.n > 0 /\ lastRender.hasCb
           /\ lastRender.req = lastRender'.req /\ ~reloadSince /\ ~fetchSince)
       => /\ lastRender'.res.out = lastRender.res.out
          /\ lastRender'.res.message = lastRender.res.message
      ]_vars

\* a template was rendered twice in a row from the same caches
C7_Witness ==
    /\ lastRender.repeated
    /\ lastRender.res.out = "ok"
    /\ Truthy(lastRender.res.message.html)

\* C8: a send whose message is absent or has no `to` reports an error to the
\* caller's callback, renders nothing and never reaches the mail transport.
C8_NoRecipientNoTransport ==
    [][(SendStep /\ ~sendLog'[Len(sendLog')].hasTo)
       => LET rec == sendLog'[Len(sendLog')]
          IN  /\ waxDepth' = waxDepth /\ lastRender' = lastRender
              /\ inFlight' = inFlight /\ rec.transportCalls = 0
              /\ messages' = messages
              /\ rec.hasCb => rec.cbCalls = 1 /\ rec.cbErr
      ]_vars

\* a send without recipient has called back with its error
C8_Witness ==
    \E i \in DOMAIN sendLog :
        /\ sendLog[i].hasTemplate /\ ~sendLog[i].hasTo /\ sendLog[i].hasCb
        /\ sendLog[i].cbCalls = 1 /\ sendLog[i].cbErr

\* C9: whatever of template descriptor, message, message.to and callback is
\* absent, send reports the invalid request as an error result and does not throw.
C9_InvalidRequestNotThrown ==
    \A i \in DOMAIN sendLog :
        sendLog[i].out = "invalid"
        => sendLog[i].thrown = "none" /\ (sendLog[i].hasCb => sendLog[i].cbErr)

\* C10: every send that passes the argument validation hands the message to the
\* transport exactly once and afterwards calls the caller's callback exactly
\* once, whether or not a transport configuration can be resolved.
C10_ValidSendDeliversOnce ==
    \A i \in DOMAIN sendLog :
        sendLog[i].out # "invalid"
        => /\ sendLog[i].transportCalls = 1
           /\ sendLog[i].cbCalls = IF i \in inFlight THEN 0 ELSE 1

\* C11: each send takes its transport configuration at call time from the
\* message's own transporter field when present, otherwise from the transporter
\* given to the most recent successful start (the only writer of
\* opts.transporter); an override used by one send changes nothing for the others.
C11_TransporterPerCall ==
    [][/\ SendStep
          => LET rec == sendLog'[Len(sendLog')]
             IN  rec.out # "invalid"
                 => rec.transporterOpts =
                       IF messages[rec.msg].transporter # ""
                       THEN messages[rec.msg].transporter ELSE opts.transporter
       /\ opts'.transporter # opts.transporter
          => \E options \in SendStartOptions :
                /\ options.transporter # ""
                /\ opts'.transporter = options.transporter
      ]_vars

\* a send with the message's own transporter, then a send of another message
\* with the instance's transporter
C11_Witness ==
    \E i, j \in DOMAIN sendLog :
        /\ i < j
        /\ sendLog[i].out = "sent" /\ sendLog[i].transporterOpts = "smtpM"
        /\ sendLog[j].out = "sent" /\ sendLog[j].msg # sendLog[i].msg
        /\ sendLog[j].transporterOpts = opts.transporter

\* C12: for every send, the message object handed to sendMail has no
\* transporter field, whether the configuration came from the message or from
\* the instance.
C12_NoTransporterForwarded ==
    \A i \in DOMAIN sendLog :
        sendLog[i].transportCalls = 1 => sendLog[i].forwarded.transporter = ""

\* a message that carried its own transporter was handed to sendMail, and so
\* was one that used the instance's
C12_Witness ==
    \E i, j \in DOMAIN sendLog :
        /\ sendLog[i].transportCalls = 1 /\ sendLog[i].transporterOpts = "smtpM"
        /\ sendLog[i].forwarded.to # ""
        /\ sendLog[j].transportCalls = 1 /\ sendLog[j].transporterOpts # "smtpM"

\* C13: a start without transporter, made after the module was configured by
\* a successful start, starts no fetch and leaves options, store handle and
\* caches as they were before the call.
C13_FailedStartChangesNothing ==
    [][\A options \in StartOptions, database \in StoreHandles :
          (opts.transporter # "" /\ options.transporter = "" /\ Start(options, database))
          => UNCHANGED <<opts, db, caches, pending>>
      ]_vars

\* the order C14 states
StepOrder ==
    <<"subject pass 1", "subject pass 2", "body pass 1", "body pass 2", "plaintext",
      "callback">>

Rank(name) == CHOOSE i \in 1..Len(StepOrder) : StepOrder[i] = name

\* C14: within one getTemplate call the steps run in the order subject pass 1,
\* subject pass 2, body pass 1, body pass 2, plaintext synthesis, each second pass
\* reading the output of its first pass, and the callback is invoked after all of
\* them, before getTemplate returns.
C14_StepsInOrder ==
    [][RenderStep
       => LET st == lastRender'.res.steps
          IN  /\ \A i, j \in 1..Len(st) : i < j => Rank(st[i].step) < Rank(st[j].step)
              /\ \A i \in 1..Len(st) :
                    st[i].step \in {"subject pass 2", "body pass 2"}
                    => /\ i > 1
                       /\ Rank(st[i - 1].step) = Rank(st[i].step) - 1
                       /\ st[i].inp = st[i - 1].out
              /\ \A i \in 1..Len(st) :
                    st[i].step \in {"subject pass 1", "body pass 1"}
                    => i < Len(st) /\ Rank(st[i + 1].step) = Rank(st[i].step) + 1
              /\ Len(st) > 0 /\ st[Len(st)].step = "callback"
      ]_vars

\* a cache entry pair as one fetched document had it
FromOneDocument(name, body, subject) ==
    \E docs \in TemplateLists : \E i \in 1..Len(docs) :
        docs[i].name = name /\ docs[i].text = body /\ docs[i].subject = subject

\* C15: under any interleaving of fetch completions and getTemplate calls, a
\* call never reads a cache that a fetch result was only partly applied to: the
\* caches change by whole fetch results only, never within a getTemplate call, so
\* that all passes of a call read the caches as they were when it was made, and
\* every template's body is cached with the subject of the same document.
C15_NoPartialFetchSeen ==
    [][/\ (templates' # templates \/ subjects' # subjects)
          => \E docs \in TemplateLists :
                /\ templates' = StoreTexts(templates, docs, 1)
                /\ subjects' = StoreSubjects(subjects, docs, 1)
       /\ translations' # translations
          => \E list \in TranslationLists :
                translations' = StoreTranslations(translations, list, 1)
       /\ RenderStep
          => /\ UNCHANGED caches
             /\ lastRender'.res = getTemplate(lastRender'.req, TRUE, translations,
                                              templates, subjects, opts)
             /\ DOMAIN templates = DOMAIN subjects
             /\ \A n \in DOMAIN templates :
                   FromOneDocument(n, templates[n], subjects[n])
      ]_vars

\* a render was made from caches that one templates result had been applied to
\* while the templates query of another reload was still unanswered
C15_Witness ==
    /\ lastRender.n > 0 /\ lastRender.res.out = "ok"
    /\ lastRender.req.name \in DOMAIN templates
    /\ ~fetchSince /\ ~reloadSince
    /\ \E f \in pending : f.kind = "templates"

\* every entry of the list is cached as fetched
HoldsTranslations(list) ==
    \A i \in 1..Len(list) :
        list[i].lang \in DOMAIN translations /\ translations[list[i].lang] = list[i].keys

HoldsTemplates(docs) ==
    \A i \in 1..Len(docs) :
        /\ docs[i].name \in DOMAIN templates /\ templates[docs[i].name] = docs[i].text
        /\ docs[i].name \in DOMAIN subjects /\ subjects[docs[i].name] = docs[i].subject

\* C16: when reloads overlap, then once all their fetches have completed
\* successfully the caches hold what the later-invoked reload fetched, in
\* whatever order the completions arrived.
C16_LastReloadWins ==
    (pending = {} /\ ~uncaught /\ nReloads >= 2
        /\ applied.translations.done /\ applied.templates.done)
    => /\ HoldsTranslations(applied.translations.list)
       /\ HoldsTemplates(applied.templates.list)

\* a body that consists of one interpolation of a data path
IsInterpolation(val) == val.ty = "str" /\ Len(val.v) = 1 /\ val.v[1].k = "data"

\* the view a call renders with
ViewOf(req) ==
    [data |-> req.data, lang |-> SelectLang(req, translations, opts),
     templates |-> templates, formatters |-> opts.mustacheFormatter]

\* fn(...f2(f1(v))...) for the first n segments: the outermost filter is the
\* last segment; a name that is not registered stands for the identity
RECURSIVE C17_Value(_, _, _, _)
C17_Value(v, segs, n, cd) ==
    IF n = 0 THEN v
    ELSE LET inner  == C17_Value(v, segs, n - 1, cd)
             params == <<inner>> \o [i \in 1..Len(segs[n].params) |->
                                        parseParam(segs[n].params[i], cd)]
         IN  IF segs[n].filter \in cd.formatters
             THEN Formatter(segs[n].filter, params)
             ELSE inner

\* the html of a body that is one interpolation of that value
Printed(val) ==
    IF val.ty \in {"str", "num"} THEN Str(EscapeText(val.v)) ELSE Str(<<>>)

IsEmpty(seg) == seg.filter = ""

\* C17: an interpolation path | f1 | ... | fn evaluates to fn(...f1(v)...), v the
\* value of path in the context: the filters apply from left to right, each to
\* the current value as first argument, and a name that is not registered leaves
\* the value as it is and throws nothing, the rest of the chain still applying.
C17_FiltersLeftToRight ==
    [][RenderStep
       => LET body == Get(templates, lastRender'.req.name)
              tok  == body.v[1]
              cd   == ViewOf(lastRender'.req)
          IN  (IsInterpolation(body) /\ \A i \in 1..Len(tok.f) : ~IsEmpty(tok.f[i]))
              => /\ lastRender'.res.out = "ok"
                 /\ lastRender'.res.message.html =
                       Printed(C17_Value(Lookup(tok, cd), tok.f, Len(tok.f), cd))
      ]_vars

\* {{ data.x | up : data.x | none | ex : '!' : 7 }} was rendered with both
\* formatters registered and came out as ex(up(Bob,Bob),!,7)
C17_Witness ==
    /\ lastRender.n > 0 /\ lastRender.res.out = "ok"
    /\ lastRender.req.data = Data
    /\ opts.mustacheFormatter = Formatters
    /\ Get(templates, "F") =
          Str(<<Piped(DataRef("x"),
                      << Seg("up", <<Param("path", DataRef("x"))>>),
                         Seg("none", <<>>),
                         Seg("ex", <<Param("str", "!"), Param("int", "7")>>) >>)>>)
    /\ lastRender.res.message.html =
          Str(<< Lit("ex"), Lit("("), Lit("up"), Lit("("), Lit("Bob"), Lit(","),
                 Lit("Bob"), Lit(")"), Lit(","), Lit("!"), Lit(","), Lit("7"),
                 Lit(")") >>)

\* the chain without its empty segments
Filled(segs) == SelectSeq(segs, LAMBDA seg : ~IsEmpty(seg))

\* C18: an interpolation whose chain has an empty segment (two adjacent pipes or
\* a trailing pipe, with or without blanks between) evaluates as if the segment
\* were not there: the other filters apply and nothing is thrown.
C18_EmptySegmentIgnored ==
    [][RenderStep
       => LET body == Get(templates, lastRender'.req.name)
              tok  == body.v[1]
              cd   == ViewOf(lastRender'.req)
          IN  (IsInterpolation(body) /\ \E i \in 1..Len(tok.f) : IsEmpty(tok.f[i]))
              => /\ lastRender'.res.out = "ok"
                 /\ lastRender'.res.message.html =
                       Printed(C17_Value(Lookup(tok, cd), Filled(tok.f),
                                         Len(Filled(tok.f)), cd))
      ]_vars

\* C19: the filter-aware lookup is installed on the engine at most once: after
\* any number of getTemplate calls the chain of lookup wrappers is as deep as
\* after the first call.
C19_WaxInstalledOnce == waxDepth <= 1

\* C20: send leaves the caller's message object as it was passed, so that a
\* later send of the same object with another template delivers that template's
\* subject, html and text, with the message's own transporter still in use.
C20_SendLeavesMessage ==
    [][SendStep => messages' = messages]_vars

====
